---- MODULE Spec2Model ----
(***************************************************************************)
(* Gosh Transfer: the receive server (src-tauri/src/server.rs), the send   *)
(* client (src-tauri/src/client.rs) and the approve / reject commands      *)
(* (src-tauri/src/commands.rs) as one state machine.                        *)
(*                                                                         *)
(* Receiver side: ServerState's pending_transfers and approved_tokens maps, *)
(* the download directory, the event bus, and the chunk uploads that are   *)
(* streaming.  Sender side: one TransferClient running send_files.          *)
(* GoshTransferEngine::accept_transfer / reject_transfer are not part of    *)
(* the sources; they are modelled from the specification (sections 4.2 and  *)
(* 4.5) and named engine_accept_transfer / engine_reject_transfer.          *)
(***************************************************************************)
EXTENDS Naturals, Sequences, FiniteSets

\* ---------------------------------------------------------------- bounds
\* transfer ids that peers other than the modelled sender put on the wire
NumPeerIds == 2
\* tokens the receiver may issue (Uuid::new_v4 never repeats: a counter)
MaxTokens == 2
\* largest declared file size, in bytes; a body may carry one byte more
MaxSize == 1
\* chunk uploads streaming at the same time
MaxUploads == 1
\* send_files calls of the modelled sender
MaxSends == 1
\* events a broadcast channel keeps for its receivers (broadcast::channel(100)
\* in the code)
ChannelCapacity == 2
\* events sent on the channel
MaxEvents == 4
\* records the history keeps (MAX_HISTORY_ENTRIES is 100 in the code)
MAX_HISTORY_ENTRIES == 3
\* HistoryStore::add calls
MaxAdds == 5
\* handlers of the receive server running at the same time
NumHandlers == 3

\* ------------------------------------------------------------ value sets
\* Option::None of a token (tokens are 1, 2, ...)
NoToken == 0

PeerIds == 1..NumPeerIds
\* the k-th Uuid::new_v4() of the sending process
SenderUuid(k) == 100 + k
SenderIds == {SenderUuid(k) : k \in 1..(2 * MaxSends)}
TransferIds == PeerIds \cup SenderIds

FileIds == {"f1", "f2"}
\* declared file names: a plain one, one with a parent-directory component,
\* an absolute one
Names == {"a", "../a", "/a"}

\* Path::components of a declared name ("/" is the root component)
Components(name) ==
    CASE name = "a" -> << "a" >>
      [] name = "../a" -> << "..", "a" >>
      [] name = "/a" -> << "/", "a" >>

\* AppSettings.download_dir
download_dir == << "/", "dl" >>

\* Path::join: an absolute argument replaces the base
join(base, name) ==
    IF Components(name)[1] = "/" THEN Components(name)
    ELSE base \o Components(name)

\* the file the operating system opens for a path: ".." steps to the parent,
\* the parent of the root being the root
RECURSIVE Resolve(_, _)
Resolve(done, rest) ==
    IF rest = << >> THEN done
    ELSE IF Head(rest) = ".."
    THEN Resolve(IF Len(done) > 1 THEN SubSeq(done, 1, Len(done) - 1) ELSE done,
                 Tail(rest))
    ELSE Resolve(Append(done, Head(rest)), Tail(rest))

\* download_dir.join(&file_info.name), as File::create opens it
file_path(name) == Resolve(<< >>, join(download_dir, name))

Paths == {file_path(n) : n \in Names}

TransferFile(id, name, size) == [id |-> id, name |-> name, size |-> size]

\* the file lists a request may declare: one file, and two files (the
\* second one empty and of the same name as the first)
FileLists ==
    { << TransferFile("f1", "a", MaxSize) >>,
      << TransferFile("f1", "a", MaxSize), TransferFile("f2", "a", 0) >> }

RECURSIVE SumSizes(_)
SumSizes(files) ==
    IF files = << >> THEN 0 ELSE Head(files).size + SumSizes(Tail(files))

\* the record made with the total summed up from the files, not the request's
PendingTransfer_SummedTotal(id, files, total_size) ==
    [id |-> id, files |-> files, total_size |-> SumSizes(files)]

PendingTransfer(id, files, total_size) ==
    [id |-> id, files |-> files, total_size |-> total_size]

\* ---------------------------------------------------------------- state
VARIABLES
    pending_transfers,  \* ServerState.pending_transfers: id -> PendingTransfer
    approved_tokens,    \* ServerState.approved_tokens: id -> token
    rejected,           \* the engine's rejected collection (ids)
    disk,               \* the file system: path -> file
    uploads,            \* chunk_upload_handler calls that are streaming
    bus,                \* the ServerEvents the last step sent on event_tx
    resp,               \* the reply of the last handler or command
    tokenCtr,           \* tokens issued so far
    snd,                \* the TransferClient::send_files call
    uuidCtr,            \* Uuid::new_v4 calls of the sender so far
    hist,               \* history: the files declared at approval, the
                        \* files answered 200, the transfers that ended,
                        \* the terminal events sent per transfer
    app,                \* the application around the engine: the copies of
                        \* the settings, the listeners, the commands in
                        \* progress, the event channel and its subscribers
    srv                 \* the handlers of the receive server seen lock by
                        \* lock: where each handler is, the guards it holds,
                        \* the queues of the RwLocks

vars == << pending_transfers, approved_tokens, rejected, disk, uploads,
           bus, resp, tokenCtr, snd, uuidCtr, hist, app, srv >>

serverVars == << pending_transfers, approved_tokens, rejected, disk, uploads,
                 bus, tokenCtr >>

NoFile == [owner |-> 0, fid |-> "", len |-> 0, exists |-> FALSE]
Idle == [busy |-> FALSE]
NoResp == [op |-> "none", tid |-> 0, fid |-> "", token |-> NoToken,
           status |-> 0, accepted |-> FALSE, rtoken |-> NoToken, ip |-> "",
           request |-> << >>]

Reply(op, tid, fid, token, status, accepted, rtoken) ==
    [op |-> op, tid |-> tid, fid |-> fid, token |-> token,
     status |-> status, accepted |-> accepted, rtoken |-> rtoken, ip |-> "",
     request |-> << >>]

SndIdle == [pc |-> "idle", reqId |-> 0, chunkId |-> 0, files |-> << >>,
            idx |-> 0, token |-> NoToken, posts |-> 0, result |-> "none",
            peer |-> "none", chunkIds |-> {}, sent |-> << >>,
            events |-> << >>,
            response |-> [accepted |-> FALSE, token |-> NoToken],
            receive_only |-> FALSE, cancel |-> "none",
            command |-> [name |-> "", state |-> "none", waited |-> FALSE]]

\* AppSettings::default(): port 53317 (and another port), no trusted host
Ports == {53317, 53318}
Hosts == {"10.0.0.2"}
DefaultSettings == [port |-> 53317, trusted_hosts |-> {}]
Snapshots == [port : Ports, trusted_hosts : SUBSET Hosts]

\* the RwLocks of ServerState
Locks == {"settings", "approved_tokens", "download_dir", "pending_transfers"}

Handlers == 1..NumHandlers

\* a handler that is not running
NoHandler == [kind |-> "idle", tid |-> 0, at |-> 0, waiting |-> FALSE,
              held |-> {}]

SrvInit ==
    [h |-> [x \in Handlers |-> NoHandler], \* the handlers
     queue |-> [l \in Locks |-> << >>],    \* handlers waiting for a lock, FIFO
     pending |-> {},                       \* keys of pending_transfers
     events |-> << >>]                     \* events sent by the last step

\* a receiver subscribed before the first event: next is the number of the
\* event it reads next, got what its subscriber has delivered so far
NewReceiver == [next |-> 1, running |-> TRUE, got |-> << >>]

AppInit ==
    [store |-> DefaultSettings,      \* SettingsStore.settings
     settings |-> DefaultSettings,   \* AppState.settings
     engine |-> DefaultSettings,     \* the EngineConfig the engine holds
     listeners |-> {},               \* ports with a bound TcpListener
     started |-> "none",             \* result of the last start_server
     upd |-> [pc |-> "idle", new |-> DefaultSettings, old |-> 53317],
     trust |-> [pc |-> "idle", add |-> TRUE, host |-> ""],
     events |-> << >>,               \* engine events of the last step
     chan |-> [sent |-> 0,           \* events sent on the broadcast channel
               fwd |-> NewReceiver,  \* receiver of the forwarder task
               sse |-> NewReceiver], \* receiver of a GET /events stream
     history |-> [records |-> << >>, \* HistoryStore.records
                  added |-> << >>,   \* every record added, in order
                  cleared |-> 0]]    \* how many of them before the last clear

Init ==
    /\ pending_transfers = << >>
    /\ approved_tokens = << >>
    /\ rejected = {}
    /\ disk = [p \in Paths |-> NoFile]
    /\ uploads = [u \in 1..MaxUploads |-> Idle]
    /\ bus = << >>
    /\ resp = NoResp
    /\ tokenCtr = 0
    /\ snd = SndIdle
    /\ uuidCtr = 0
    /\ hist = [declared |-> << >>, served |-> {}, ended |-> {},
               terminal |-> [t \in TransferIds |-> 0],
               phase |-> [t \in TransferIds |-> "none"]]
    /\ app = AppInit
    /\ srv = SrvInit

\* HashMap::insert and HashMap::remove
MapInsert(m, k, v) == [x \in DOMAIN m \cup {k} |-> IF x = k THEN v ELSE m[x]]
MapRemove(m, k) == [x \in DOMAIN m \ {k} |-> m[x]]

\* ------------------------------------------------- receive server (server.rs)
\* tokio RwLock: a write() waits while a read guard is alive.  A streaming
\* chunk_upload_handler keeps its read guards on approved_tokens and
\* pending_transfers until it returns.
NoReadGuards == \A u \in DOMAIN uploads : ~uploads[u].busy

\* the addresses requests come from, and AppSettings.trusted_hosts
SenderIps == {"10.0.0.2", "10.0.0.3"}
trusted_hosts == {"10.0.0.2"}

\* the receive-only setting of the specification (AppSettings has no such
\* field): off
receive_only == FALSE

\* let is_trusted = false; // TODO: Check against trusted_hosts
is_trusted(source_ip) == FALSE

\* POST /transfer, the request coming from source_ip
transfer_request_handler(tid, files, total_size, source_ip) ==
    LET pending == PendingTransfer(tid, files, total_size)
        request == [files |-> files, total_size |-> total_size] IN
    /\ NoReadGuards
    /\ IF is_trusted(source_ip)
       THEN /\ tokenCtr < MaxTokens
            /\ tokenCtr' = tokenCtr + 1
            /\ approved_tokens' = MapInsert(approved_tokens, tid, tokenCtr + 1)
            /\ resp' = [Reply("transfer", tid, "", NoToken, 200, TRUE,
                               tokenCtr + 1)
                           EXCEPT !.ip = source_ip, !.request = request]
            /\ bus' = << >>
            /\ UNCHANGED pending_transfers
       ELSE /\ pending_transfers' = MapInsert(pending_transfers, tid, pending)
            /\ bus' = << [type |-> "TransferRequest", transfer |-> pending] >>
            /\ resp' = [Reply("transfer", tid, "", NoToken, 200, FALSE,
                               NoToken)
                           EXCEPT !.ip = source_ip, !.request = request]
            /\ UNCHANGED << approved_tokens, tokenCtr >>
    /\ UNCHANGED << rejected, disk, uploads >>

\* transfer.files.iter().find(|f| f.id == params.file_id)
FindFile(files, fid) ==
    LET hits == {i \in 1..Len(files) : files[i].id = fid} IN
    IF hits = {} THEN 0
    ELSE CHOOSE i \in hits : \A j \in hits : i <= j

\* the token check left out
TokenRefused_NoCheck(tid, token) == FALSE

\* only the presence of an entry checked, not the token
TokenRefused_PresenceOnly(tid, token) == tid \notin DOMAIN approved_tokens

\* the token looked up among all approved tokens, not under transfer_id
TokenRefused_AnyApproved(tid, token) ==
    ~(tid \in DOMAIN approved_tokens
      /\ \E a \in DOMAIN approved_tokens : approved_tokens[a] = token)

\* expected_token != Some(&params.token)
TokenRefused(tid, token) ==
    ~(tid \in DOMAIN approved_tokens /\ approved_tokens[tid] = token)

FreeSlots == {u \in DOMAIN uploads : ~uploads[u].busy}

\* POST /chunk, up to File::create: the token check, the lookups, the create
chunk_upload_begin(tid, fid, token, createOk) ==
    /\ FreeSlots # {}
    /\ bus' = << >>
    /\ UNCHANGED << pending_transfers, approved_tokens, rejected, tokenCtr >>
    /\ IF TokenRefused(tid, token)
       THEN /\ resp' = Reply("chunk", tid, fid, token, 401, FALSE, NoToken)
            /\ UNCHANGED << disk, uploads >>
       ELSE IF tid \notin DOMAIN pending_transfers
       THEN /\ resp' = Reply("chunk", tid, fid, token, 404, FALSE, NoToken)
            /\ UNCHANGED << disk, uploads >>
       ELSE LET files == pending_transfers[tid].files
                i == FindFile(files, fid) IN
            IF i = 0
            THEN /\ resp' = Reply("chunk", tid, fid, token, 404, FALSE, NoToken)
                 /\ UNCHANGED << disk, uploads >>
            ELSE IF ~createOk
            THEN /\ resp' = Reply("chunk", tid, fid, token, 500, FALSE, NoToken)
                 /\ UNCHANGED << disk, uploads >>
            ELSE LET u == CHOOSE x \in FreeSlots : \A y \in FreeSlots : x <= y IN
                 \* File::create(download_dir.join(&file_info.name)) truncates
                 /\ disk' = [disk EXCEPT ![file_path(files[i].name)] =
                                [owner |-> tid, fid |-> fid, len |-> 0,
                                 exists |-> TRUE]]
                 /\ uploads' = [uploads EXCEPT ![u] =
                                [busy |-> TRUE, tid |-> tid, fid |-> fid,
                                 token |-> token, name |-> files[i].name,
                                 size |-> files[i].size, bytes_received |-> 0]]
                 /\ resp' = NoResp

\* ServerEvent::Progress { progress: TransferProgress {..} }
ProgressEvent(u) ==
    [type |-> "Progress",
     progress |-> [transfer_id |-> uploads[u].tid,
                   current_file |-> uploads[u].name,
                   bytes_transferred |-> uploads[u].bytes_received + 1,
                   total_bytes |-> uploads[u].size]]

UploadReply(u, status) ==
    Reply("chunk", uploads[u].tid, uploads[u].fid, uploads[u].token, status,
          FALSE, NoToken)

\* while let Some(chunk) = stream.next().await, Ok(data): one byte of body
chunk_upload_data(u, writeOk) ==
    /\ uploads[u].busy
    /\ uploads[u].bytes_received <= MaxSize
    /\ UNCHANGED << pending_transfers, approved_tokens, rejected, tokenCtr >>
    /\ IF writeOk
       THEN /\ uploads' = [uploads EXCEPT ![u].bytes_received = @ + 1]
            /\ disk' = [disk EXCEPT ![file_path(uploads[u].name)].len =
                            IF @ > uploads[u].bytes_received + 1 THEN @
                            ELSE uploads[u].bytes_received + 1]
            /\ bus' = << ProgressEvent(u) >>
            /\ resp' = NoResp
       ELSE \* file.write_all failed: 500, the handler returns
            /\ uploads' = [uploads EXCEPT ![u] = Idle]
            /\ resp' = UploadReply(u, 500)
            /\ bus' = << >>
            /\ UNCHANGED disk

\* Some(Err(e)) from the body stream: 500, the handler returns
chunk_upload_stream_error(u) ==
    /\ uploads[u].busy
    /\ uploads' = [uploads EXCEPT ![u] = Idle]
    /\ resp' = UploadReply(u, 500)
    /\ bus' = << >>
    /\ UNCHANGED << pending_transfers, approved_tokens, rejected, disk,
                    tokenCtr >>

\* the stream ends: flush, 200 {status: ok, file, bytes_received}
chunk_upload_end(u) ==
    /\ uploads[u].busy
    /\ uploads' = [uploads EXCEPT ![u] = Idle]
    /\ resp' = UploadReply(u, 200)
    /\ bus' = << >>
    /\ UNCHANGED << pending_transfers, approved_tokens, rejected, disk,
                    tokenCtr >>

\* ------------------------------------- engine (modelled from the specification)
\* accept_transfer(transfer_id) -> token: moves pending -> approved,
\* generates token, returns it
EngineAcceptResult(tid) ==
    IF tid \in DOMAIN pending_transfers
    THEN [ok |-> TRUE, token |-> tokenCtr + 1]
    ELSE [ok |-> FALSE, token |-> NoToken]

engine_accept_transfer(tid) ==
    IF tid \in DOMAIN pending_transfers
    THEN /\ tokenCtr < MaxTokens
         /\ tokenCtr' = tokenCtr + 1
         /\ pending_transfers' = MapRemove(pending_transfers, tid)
         /\ approved_tokens' = MapInsert(approved_tokens, tid, tokenCtr + 1)
    ELSE UNCHANGED << tokenCtr, pending_transfers, approved_tokens >>

\* reject_transfer(transfer_id): moves pending -> rejected
EngineRejectResult(tid) == [ok |-> tid \in DOMAIN pending_transfers]

engine_reject_transfer(tid) ==
    IF tid \in DOMAIN pending_transfers
    THEN /\ pending_transfers' = MapRemove(pending_transfers, tid)
         /\ rejected' = rejected \cup {tid}
    ELSE UNCHANGED << pending_transfers, rejected >>

\* ------------------------------------------------- commands (commands.rs)
\* the command hands back a token of its own, not the engine's
AcceptReply_OwnToken(tid, r) ==
    IF r.ok THEN Reply("accept", tid, "", NoToken, 200, TRUE, r.token + 1)
    ELSE Reply("accept", tid, "", NoToken, 500, FALSE, NoToken)

\* engine.accept_transfer(&transfer_id).await.map_err(|e| e.to_string())
AcceptReply(tid, r) ==
    IF r.ok THEN Reply("accept", tid, "", NoToken, 200, TRUE, r.token)
    ELSE Reply("accept", tid, "", NoToken, 500, FALSE, NoToken)

accept_transfer(tid) ==
    /\ NoReadGuards
    /\ engine_accept_transfer(tid)
    /\ resp' = AcceptReply(tid, EngineAcceptResult(tid))
    /\ bus' = << >>
    /\ UNCHANGED << rejected, disk, uploads >>

\* engine.reject_transfer(&transfer_id).await.map_err(|e| e.to_string())
RejectReply(tid, r) ==
    Reply("reject", tid, "", NoToken, IF r.ok THEN 200 ELSE 500, FALSE, NoToken)

reject_transfer(tid) ==
    /\ NoReadGuards
    /\ engine_reject_transfer(tid)
    /\ resp' = RejectReply(tid, EngineRejectResult(tid))
    /\ bus' = << >>
    /\ UNCHANGED << approved_tokens, disk, uploads, tokenCtr >>

\* ----------------------------------------------------- send client (client.rs)
\* send_files up to the request: the file list is built from the paths
\* setting is the receive_only setting at the time of the call; send_files
\* does not look at it
send_files_start(files, statOk, setting) ==
    /\ snd.pc \in {"idle", "done"}
    /\ uuidCtr + 2 <= 2 * MaxSends
    /\ snd' = IF statOk
              THEN [SndIdle EXCEPT !.pc = "request", !.files = files,
                                   !.receive_only = setting]
              ELSE [SndIdle EXCEPT !.pc = "done", !.result = "FileIo",
                                   !.receive_only = setting]
    /\ UNCHANGED << serverVars, resp, uuidCtr >>

\* send_files going on to upload whenever the response carries a token
AfterResponse_TokenOnly(reqId, accepted, rtoken) ==
    IF rtoken = NoToken
    THEN [snd EXCEPT !.pc = "done", !.reqId = reqId, !.posts = @ + 1,
                     !.result = "Network",
                     !.response = [accepted |-> accepted, token |-> rtoken]]
    ELSE [snd EXCEPT !.pc = "send", !.reqId = reqId, !.posts = @ + 1,
                     !.token = rtoken, !.idx = 1,
                     !.chunkId = SenderUuid(uuidCtr + 2),
                     !.response = [accepted |-> accepted, token |-> rtoken]]

\* send_files after the response of request_transfer has been parsed
AfterResponse(reqId, accepted, rtoken) ==
    IF ~accepted
    THEN [snd EXCEPT !.pc = "done", !.reqId = reqId, !.posts = @ + 1,
                     !.result = "TransferRejected",
                     !.response = [accepted |-> accepted, token |-> rtoken]]
    ELSE IF rtoken = NoToken
    THEN [snd EXCEPT !.pc = "done", !.reqId = reqId, !.posts = @ + 1,
                     !.result = "Network",
                     !.response = [accepted |-> accepted, token |-> rtoken]]
    ELSE \* let transfer_id = Uuid::new_v4().to_string();
         [snd EXCEPT !.pc = "send", !.reqId = reqId, !.posts = @ + 1,
                     !.token = rtoken, !.idx = 1,
                     !.chunkId = SenderUuid(uuidCtr + 2),
                     !.response = [accepted |-> accepted, token |-> rtoken]]

\* request_transfer, the peer being the receiver modelled here
request_transfer_local ==
    /\ snd.pc = "request"
    /\ \E source_ip \in SenderIps :
          transfer_request_handler(SenderUuid(uuidCtr + 1), snd.files,
                                   SumSizes(snd.files), source_ip)
    /\ snd' = [AfterResponse(SenderUuid(uuidCtr + 1), resp'.accepted,
                             resp'.rtoken) EXCEPT !.peer = "local"]
    /\ uuidCtr' = IF snd'.pc = "send" THEN uuidCtr + 2 ELSE uuidCtr + 1

\* request_transfer, the peer being another host: any TransferResponse
request_transfer_remote(accepted, rtoken) ==
    /\ snd.pc = "request"
    /\ snd' = [AfterResponse(SenderUuid(uuidCtr + 1), accepted, rtoken)
                 EXCEPT !.peer = "remote"]
    /\ uuidCtr' = IF snd'.pc = "send" THEN uuidCtr + 2 ELSE uuidCtr + 1
    /\ UNCHANGED << serverVars, resp >>

\* request_transfer fails to connect or to parse the response
request_transfer_error ==
    /\ snd.pc = "request"
    /\ snd' = [snd EXCEPT !.pc = "done", !.reqId = SenderUuid(uuidCtr + 1),
                          !.posts = @ + 1, !.result = "Network",
                          !.peer = "remote"]
    /\ uuidCtr' = uuidCtr + 1
    /\ UNCHANGED << serverVars, resp >>

\* the loop running over the files last to first
LoopFile_Reversed(files, idx) == files[Len(files) + 1 - idx]

\* `for (file, path) in files.iter().zip(file_paths.iter())`: the file of
\* the idx-th turn
LoopFile(files, idx) == files[idx]

\* send_file up to `.send().await`: the POST /chunk of the turn's file goes
\* out with the loop's transfer_id
send_file_post ==
    /\ snd.pc = "send"
    /\ snd' = [snd EXCEPT !.pc = "await",
                          !.chunkIds = @ \cup {snd.chunkId},
                          !.sent = Append(@, [fid |-> LoopFile(snd.files, snd.idx).id,
                                              state |-> "inflight"])]
    /\ UNCHANGED << serverVars, resp, uuidCtr >>

\* TransferProgress sent on progress_tx after a file went through
ClientProgress(file) ==
    [type |-> "Progress", current_file |-> file.name,
     bytes_transferred |-> file.size, total_bytes |-> file.size]

\* send_file from the response on, and the rest of the turn: a failed send or
\* a non-2xx status is an Err that `?` returns from send_files
send_file(success) ==
    /\ snd.pc = "await"
    /\ snd' = IF ~success
              THEN [snd EXCEPT !.pc = "done", !.result = "Network",
                               !.sent[Len(snd.sent)].state = "failed"]
              ELSE IF snd.idx = Len(snd.files)
              THEN [snd EXCEPT !.pc = "done", !.result = "Ok",
                               !.sent[Len(snd.sent)].state = "ok",
                               !.events = Append(@, ClientProgress(
                                             LoopFile(snd.files, snd.idx)))]
              ELSE [snd EXCEPT !.pc = "send", !.idx = @ + 1,
                               !.sent[Len(snd.sent)].state = "ok",
                               !.events = Append(@, ClientProgress(
                                             LoopFile(snd.files, snd.idx)))]
    /\ UNCHANGED << serverVars, resp, uuidCtr >>

\* the send_files command keeps the engine mutex from its first line until
\* engine.send_files has returned
EngineLocked == snd.pc \in {"request", "send", "await"}

\* the cancel_transfer command is invoked for the transfer being sent: like
\* every engine command it starts by waiting for the engine mutex
cancel_transfer_call ==
    /\ EngineLocked
    /\ snd.cancel = "none"
    /\ snd' = [snd EXCEPT !.cancel = "issued"]
    /\ UNCHANGED << serverVars, resp, uuidCtr >>

\* cancel_transfer has got the engine mutex: the engine sets the cancel flag
\* of the transfer
cancel_transfer ==
    /\ snd.cancel = "issued"
    /\ ~EngineLocked
    /\ snd' = [snd EXCEPT !.cancel = "set"]
    /\ UNCHANGED << serverVars, resp, uuidCtr >>

\* the commands that start with state.engine.lock().await
EngineCommands ==
    {"accept_transfer", "reject_transfer", "get_pending_transfers",
     "get_server_status"}

\* one of them is invoked while a send may be in progress: it runs at once
\* when the engine mutex is free and waits for it otherwise
engine_command_call(name) ==
    /\ snd.pc # "idle"
    /\ snd.command.state = "none"
    /\ snd' = [snd EXCEPT
                 !.command = [name |-> name,
                              state |-> IF EngineLocked THEN "waiting"
                                        ELSE "done",
                              waited |-> EngineLocked]]
    /\ UNCHANGED << serverVars, resp, uuidCtr >>

\* the waiting command gets the engine mutex and completes
engine_command_run ==
    /\ snd.command.state = "waiting"
    /\ ~EngineLocked
    /\ snd' = [snd EXCEPT !.command.state = "done"]
    /\ UNCHANGED << serverVars, resp, uuidCtr >>

\* ------------------------------------- server start and stop, configuration
engineVarsNoSrv == << serverVars, resp, snd, uuidCtr, hist >>
engineVars == << engineVarsNoSrv, srv >>

\* update_settings holds the engine mutex for the whole of
\* engine.update_config: no other call of the engine runs inside it
ConfigLocked == app.upd.pc = "bound"

\* start_server(state, port): TcpListener::bind fails when the port already
\* has a listener, otherwise the listener serves
start_server(port) ==
    /\ ~ConfigLocked
    /\ app' = IF port \in app.listeners
              THEN [app EXCEPT !.started = "error", !.events = << >>]
              ELSE [app EXCEPT !.listeners = @ \cup {port},
                               !.started = "serving", !.events = << >>]
    /\ UNCHANGED engineVars

\* stop_server of the specification: closes the listeners, idempotent
engine_stop_server ==
    /\ ~ConfigLocked
    /\ app' = [app EXCEPT !.listeners = {}, !.started = "stopped",
                          !.events = << >>]
    /\ UNCHANGED engineVars

\* update_settings, first statement: SettingsStore::update replaces the
\* store's copy, then persists; an error of persist ends the command
update_settings_store(new_settings, persistOk) ==
    /\ app.upd.pc = "idle"
    /\ app' = [app EXCEPT !.store = new_settings,
                          !.upd = IF persistOk
                                  THEN [pc |-> "stored", new |-> new_settings,
                                        old |-> app.engine.port]
                                  ELSE app.upd,
                          !.events = << >>]
    /\ UNCHANGED engineVars

\* update_settings: *settings = new_settings.clone()
update_settings_replace ==
    /\ app.upd.pc = "stored"
    /\ app' = [app EXCEPT !.settings = app.upd.new, !.upd.pc = "replaced",
                          !.events = << >>]
    /\ UNCHANGED engineVars

\* the engine closing the old listener before it tries the new port
ListenersAfterBind_CloseFirst(listeners, old, new, bindOk) ==
    IF bindOk THEN (listeners \ {old}) \cup {new} ELSE listeners \ {old}

\* the listeners once update_config has tried to bind the new port
ListenersAfterBind(listeners, old, new, bindOk) ==
    IF bindOk THEN listeners \cup {new} ELSE listeners

\* update_settings: engine.update_config(engine_config), as specified: a
\* changed port is bound first; when the bind fails the old listener stays
engine_update_config(bindOk) ==
    /\ app.upd.pc = "replaced"
    /\ LET old == app.engine.port
           new == app.upd.new
           rebind == new.port # old /\ old \in app.listeners
       IN  app' =
             IF ~rebind
             THEN [app EXCEPT !.engine = new, !.upd.pc = "emit",
                              !.events = << >>]
             ELSE [app EXCEPT
                     !.engine = IF bindOk THEN new
                                ELSE [new EXCEPT !.port = old],
                     !.listeners = ListenersAfterBind(@, old, new.port, bindOk),
                     !.upd.pc = IF bindOk THEN "bound" ELSE "emit",
                     !.upd.old = old,
                     !.events = << >>]
    /\ UNCHANGED engineVars

\* update_config, the new listener serving: the old one is closed and
\* PortChanged is sent
engine_close_old ==
    /\ app.upd.pc = "bound"
    /\ app' = [app EXCEPT !.listeners = @ \ {app.upd.old},
                          !.upd.pc = "emit",
                          !.events = << [type |-> "PortChanged",
                                         old_port |-> app.upd.old,
                                         new_port |-> app.engine.port] >>]
    /\ UNCHANGED engineVars

\* update_settings: app.emit("settings-updated", new_settings); Ok(())
update_settings_emit ==
    /\ app.upd.pc = "emit"
    /\ app' = [app EXCEPT !.upd.pc = "idle", !.events = << >>]
    /\ UNCHANGED engineVars

\* add_trusted_host / remove_trusted_host, first part: the host is pushed to
\* or removed from settings.trusted_hosts under the write lock
change_trusted_host(add, host) ==
    /\ app.trust.pc = "idle"
    /\ app' = [app EXCEPT
                 !.settings.trusted_hosts = IF add THEN @ \cup {host}
                                            ELSE @ \ {host},
                 !.trust = [pc |-> "engine", add |-> add, host |-> host],
                 !.events = << >>]
    /\ UNCHANGED engineVars

\* add_trusted_host / remove_trusted_host, second part:
\* engine.add_trusted_host(host) / engine.remove_trusted_host(&host)
engine_change_trusted_host ==
    /\ app.trust.pc = "engine"
    /\ ~ConfigLocked
    /\ app' = [app EXCEPT
                 !.engine.trusted_hosts = IF app.trust.add
                                          THEN @ \cup {app.trust.host}
                                          ELSE @ \ {app.trust.host},
                 !.trust.pc = "idle",
                 !.events = << >>]
    /\ UNCHANGED engineVars

\* the application and its user: the server is started (again) on the
\* configured port or stopped, the settings are updated
NextConfig ==
    \/ start_server(app.engine.port)
    \/ engine_stop_server
    \/ \E new_settings \in Snapshots, persistOk \in BOOLEAN :
          update_settings_store(new_settings, persistOk)
    \/ update_settings_replace
    \/ \E bindOk \in BOOLEAN : engine_update_config(bindOk)
    \/ engine_close_old
    \/ update_settings_emit
    \/ \E add \in BOOLEAN, host \in Hosts : change_trusted_host(add, host)
    \/ engine_change_trusted_host

ConfigSpec == Init /\ [][NextConfig]_vars

\* -------------------------------------------------------------- the system
\* ids a request off the wire may name: the peers' and those the receiver
\* has seen
WireIds == PeerIds \cup DOMAIN pending_transfers \cup DOMAIN approved_tokens
               \cup rejected

\* the bodies a POST /transfer may carry: every file list with its true
\* total size, and the one-file list with a total one byte too large
Requests ==
    {[files |-> l, total_size |-> SumSizes(l)] : l \in FileLists}
    \cup {[files |-> l, total_size |-> SumSizes(l) + 1] :
              l \in {x \in FileLists : Len(x) = 1}}

PostTransferOf(ids, requests) ==
    \E tid \in ids, r \in requests, source_ip \in SenderIps :
        /\ transfer_request_handler(tid, r.files, r.total_size, source_ip)
        /\ UNCHANGED << snd, uuidCtr >>

PostTransfer(ids) == PostTransferOf(ids, Requests)

PostChunk(ids) ==
    \E tid \in ids, fid \in FileIds, token \in 0..tokenCtr, createOk \in BOOLEAN :
        /\ chunk_upload_begin(tid, fid, token, createOk)
        /\ UNCHANGED << snd, uuidCtr >>

BodyData ==
    \E u \in DOMAIN uploads, writeOk \in BOOLEAN :
        chunk_upload_data(u, writeOk) /\ UNCHANGED << snd, uuidCtr >>

BodyError ==
    \E u \in DOMAIN uploads :
        chunk_upload_stream_error(u) /\ UNCHANGED << snd, uuidCtr >>

BodyEnd ==
    \E u \in DOMAIN uploads :
        chunk_upload_end(u) /\ UNCHANGED << snd, uuidCtr >>

Accept(ids) == \E tid \in ids : accept_transfer(tid) /\ UNCHANGED << snd, uuidCtr >>

Reject(ids) == \E tid \in ids : reject_transfer(tid) /\ UNCHANGED << snd, uuidCtr >>

SendStart ==
    \E files \in FileLists, statOk \in BOOLEAN, setting \in BOOLEAN :
        send_files_start(files, statOk, setting)

SendRequestRemote ==
    \E accepted \in BOOLEAN, rtoken \in 0..1 :
        request_transfer_remote(accepted, rtoken)

SendFile == \E success \in BOOLEAN : send_file(success)

\* the receiver, its user, and the peers on the wire
Next ==
    \/ PostTransfer(WireIds) /\ UNCHANGED << hist, app, srv >>
    \/ PostChunk(WireIds) /\ UNCHANGED << hist, app, srv >>
    \/ BodyData /\ UNCHANGED << hist, app, srv >>
    \/ BodyError /\ UNCHANGED << hist, app, srv >>
    \/ BodyEnd /\ UNCHANGED << hist, app, srv >>
    \/ Accept(WireIds) /\ UNCHANGED << hist, app, srv >>
    \/ Reject(WireIds) /\ UNCHANGED << hist, app, srv >>

Spec == Init /\ [][Next]_vars

\* the sender running send_files against this receiver or another host,
\* and the receiver's user answering
NextSend ==
    \/ SendStart /\ UNCHANGED << hist, app, srv >>
    \/ request_transfer_local /\ UNCHANGED << hist, app, srv >>
    \/ SendRequestRemote /\ UNCHANGED << hist, app, srv >>
    \/ request_transfer_error /\ UNCHANGED << hist, app, srv >>
    \/ send_file_post /\ UNCHANGED << hist, app, srv >>
    \/ cancel_transfer_call /\ UNCHANGED << hist, app, srv >>
    \/ cancel_transfer /\ UNCHANGED << hist, app, srv >>
    \/ (\E name \in EngineCommands : engine_command_call(name))
          /\ UNCHANGED << hist, app, srv >>
    \/ engine_command_run /\ UNCHANGED << hist, app, srv >>
    \/ SendFile /\ UNCHANGED << hist, app, srv >>
    \/ Accept(WireIds) /\ UNCHANGED << hist, app, srv >>
    \/ Reject(WireIds) /\ UNCHANGED << hist, app, srv >>

SendSpec == Init /\ [][NextSend]_vars

\* ------------------------------------------------ one transfer, with history
\* The receiver serving one transfer id, and an observer that records, from
\* each step, the file list a transfer had when it was approved and the files
\* answered 200 since.
TracedIds == {1}

NewlyApproved ==
    {t \in DOMAIN approved_tokens' :
        t \notin DOMAIN approved_tokens \/ approved_tokens'[t] # approved_tokens[t]}

\* TransferRequest events for transfer t among events
RequestEvents(events, t) ==
    {i \in 1..Len(events) :
        events[i].type = "TransferRequest" /\ events[i].transfer.id = t}

\* Progress events for transfer t among events
ProgressEvents(events, t) ==
    {i \in 1..Len(events) :
        events[i].type = "Progress" /\ events[i].progress.transfer_id = t}

\* TransferComplete and TransferFailed events for transfer t among events
TerminalEvents(events, t) ==
    {i \in 1..Len(events) :
        /\ events[i].type \in {"TransferComplete", "TransferFailed"}
        /\ events[i].transfer_id = t}

Observe ==
    LET declared ==
          [t \in DOMAIN hist.declared \cup NewlyApproved |->
             IF t \notin NewlyApproved THEN hist.declared[t]
             ELSE IF t \in DOMAIN pending_transfers
             THEN pending_transfers[t].files ELSE << >>]
        served ==
          {p \in hist.served : p[1] \notin NewlyApproved}
          \cup (IF resp'.op = "chunk" /\ resp'.status = 200
                THEN {<< resp'.tid, resp'.fid >>} ELSE {})
        complete(t) ==
          /\ t \in DOMAIN declared
          /\ \A i \in 1..Len(declared[t]) : << t, declared[t][i].id >> \in served
        \* the step rejects the transfer, fails an upload of it, or answers
        \* 200 for the last of its files
        endedNow ==
          {t \in {resp'.tid} :
              \/ resp'.op = "reject" /\ resp'.status = 200
              \/ resp'.op = "chunk" /\ resp'.status = 500
              \/ resp'.op = "chunk" /\ resp'.status = 200 /\ complete(t)}
    IN  hist' =
          [declared |-> declared,
           served |-> served,
           ended |-> hist.ended \cup endedNow,
           terminal |->
             [t \in TransferIds |->
                LET n == hist.terminal[t] + Cardinality(TerminalEvents(bus', t))
                IN  IF n > 2 THEN 2 ELSE n],
           phase |->
             [t \in TransferIds |->
                IF TerminalEvents(bus', t) # {} THEN "terminal"
                ELSE IF ProgressEvents(bus', t) # {}
                        /\ hist.phase[t] # "terminal" THEN "progress"
                ELSE IF RequestEvents(bus', t) # {} /\ hist.phase[t] = "none"
                THEN "requested"
                ELSE hist.phase[t]]]

NextTrace ==
    \/ PostTransfer(TracedIds) /\ Observe /\ UNCHANGED << app, srv >>
    \/ PostChunk(TracedIds) /\ Observe /\ UNCHANGED << app, srv >>
    \/ BodyData /\ Observe /\ UNCHANGED << app, srv >>
    \/ BodyError /\ Observe /\ UNCHANGED << app, srv >>
    \/ BodyEnd /\ Observe /\ UNCHANGED << app, srv >>
    \/ Accept(TracedIds) /\ Observe /\ UNCHANGED << app, srv >>
    \/ Reject(TracedIds) /\ Observe /\ UNCHANGED << app, srv >>

TraceSpec == Init /\ [][NextTrace]_vars

\* ------------------------------------------------ one transfer, any file name
\* The receiver serving one transfer id whose request declares one file under
\* any of the names: plain, with a parent-directory component, absolute.
PathFileLists == { << TransferFile("f1", n, MaxSize) >> : n \in Names }

PathRequests ==
    {[files |-> l, total_size |-> SumSizes(l)] : l \in PathFileLists}

NextPath ==
    \/ PostTransferOf(TracedIds, PathRequests) /\ UNCHANGED << hist, app, srv >>
    \/ PostChunk(TracedIds) /\ UNCHANGED << hist, app, srv >>
    \/ BodyData /\ UNCHANGED << hist, app, srv >>
    \/ BodyError /\ UNCHANGED << hist, app, srv >>
    \/ BodyEnd /\ UNCHANGED << hist, app, srv >>
    \/ Accept(TracedIds) /\ UNCHANGED << hist, app, srv >>
    \/ Reject(TracedIds) /\ UNCHANGED << hist, app, srv >>

PathSpec == Init /\ [][NextPath]_vars

\* ------------------------------------------------------------------ claims
BusyUploads == {u \in DOMAIN uploads : uploads[u].busy}
ApprovedIds == DOMAIN approved_tokens
PendingIds == DOMAIN pending_transfers

\* the chunk_upload_handler call u creates or writes file n in this step
Writes(u, p) ==
    /\ uploads'[u].busy
    /\ uploads'[u] # uploads[u]
    /\ file_path(uploads'[u].name) = p

C2_AtMostOneCollection ==
    \A t \in TransferIds :
        /\ ~(t \in PendingIds /\ t \in ApprovedIds)
        /\ ~(t \in PendingIds /\ t \in rejected)
        /\ ~(t \in ApprovedIds /\ t \in rejected)

\* C3: a POST /chunk whose token differs from approved[transfer_id], or whose
\* transfer_id has no entry in approved, is answered 401 and changes nothing:
\* no file, no upload, approved and pending as before.
C3_BadTokenRefused ==
    [][(/\ resp'.op = "chunk"
        /\ ~(/\ resp'.tid \in ApprovedIds
             /\ approved_tokens[resp'.tid] = resp'.token))
       => /\ resp'.status = 401
          /\ UNCHANGED << disk, uploads, approved_tokens, pending_transfers >>]_vars

\* a 401 for a transfer that is approved and has a record, the token wrong
C3_Witness ==
    /\ resp.op = "chunk"
    /\ resp.status = 401
    /\ resp.tid \in ApprovedIds
    /\ resp.tid \in PendingIds
    /\ approved_tokens[resp.tid] # resp.token

\* the token of another approved transfer than the one named
ForeignToken(tid, token) ==
    \E a \in ApprovedIds : a # tid /\ approved_tokens[a] = token

\* C4: a token is bound to one transfer_id.  No two approved transfers share
\* a token, and a POST /chunk that names transfer B and carries the token
\* issued for another approved transfer A is never authorized: no upload
\* streams under it and its answer is 401.
C4_TokenBoundToTransfer ==
    /\ \A a, b \in ApprovedIds : a # b => approved_tokens[a] # approved_tokens[b]
    /\ \A u \in BusyUploads : ~ForeignToken(uploads[u].tid, uploads[u].token)
    /\ (resp.op = "chunk" /\ ForeignToken(resp.tid, resp.token))
          => resp.status = 401

\* transfer B is approved and holds a record, and a chunk naming B with the
\* token of A has been answered 401
C4_Witness ==
    /\ resp.op = "chunk"
    /\ resp.status = 401
    /\ resp.tid \in ApprovedIds
    /\ resp.tid \in PendingIds
    /\ ForeignToken(resp.tid, resp.token)

AllServed(t) ==
    \A i \in 1..Len(hist.declared[t]) :
        << t, hist.declared[t][i].id >> \in hist.served

\* C6: after a transfer has been approved, a POST /chunk that carries the
\* approved token and a file_id of the list declared at approval is not
\* answered 401 or 404; and the 200 that makes every declared file uploaded
\* comes with a TransferComplete event for the transfer.
C6_ServedThenComplete ==
    /\ (/\ resp.op = "chunk"
        /\ resp.tid \in DOMAIN hist.declared
        /\ resp.tid \in ApprovedIds
        /\ approved_tokens[resp.tid] = resp.token
        /\ \E i \in 1..Len(hist.declared[resp.tid]) :
              hist.declared[resp.tid][i].id = resp.fid)
          => resp.status \notin {401, 404}
    /\ (/\ resp.op = "chunk"
        /\ resp.status = 200
        /\ resp.tid \in DOMAIN hist.declared
        /\ AllServed(resp.tid))
          => \E i \in 1..Len(bus) :
                /\ bus[i].type = "TransferComplete"
                /\ bus[i].transfer_id = resp.tid

\* C7: once reject_transfer has put id into rejected, no token is stored for
\* id, no POST /chunk for id starts an upload and no file is created or
\* written for id.
C7_RejectionTerminal ==
    [][\A t \in rejected :
          /\ t \in DOMAIN approved_tokens'
                => (t \in ApprovedIds /\ approved_tokens'[t] = approved_tokens[t])
          /\ \A u \in DOMAIN uploads' :
                (uploads'[u].busy /\ uploads'[u].tid = t) => uploads[u].busy
          /\ \A p \in Paths, u \in DOMAIN uploads :
                Writes(u, p) => uploads'[u].tid # t]_vars

\* C8: within one send_files call every POST /chunk carries the transfer_id
\* that was sent in the body of the call's POST /transfer.
C8_SameTransferId == \A id \in snd.chunkIds : id = snd.reqId

\* C9: a POST /transfer answered accepted=false does not end send_files at
\* once: a call that ends as rejected has posted the request again (after
\* the waits of 1 s, 2 s, 4 s, ... the claim describes).
C9_RetriesBeforeRejected ==
    (snd.pc = "done" /\ snd.result = "TransferRejected") => snd.posts > 1

\* C10: the POST /transfer of an already approved transfer_id does not put
\* the id back into pending (and is the one the sender gets accepted=true
\* with the approved token from).
C10_RePostKeepsApproved ==
    [][(resp'.op = "transfer" /\ resp'.tid \in ApprovedIds)
          => resp'.tid \notin DOMAIN pending_transfers']_vars

\* the POST /chunk requests of the send_files call that are of state st
PostsIn(st) == {i \in 1..Len(snd.sent) : snd.sent[i].state = st}

\* C11: within one transfer the send client posts the files in the order
\* the request declared them: the i-th POST /chunk is for the i-th declared
\* file, every POST but the latest has completed successfully, and at most
\* one POST /chunk is in flight.
C11_DeclaredOrder ==
    /\ Len(snd.sent) <= Len(snd.files)
    /\ \A i \in 1..Len(snd.sent) : snd.sent[i].fid = snd.files[i].id
    /\ \A i \in 1..Len(snd.sent) : i < Len(snd.sent) => snd.sent[i].state = "ok"
    /\ Cardinality(PostsIn("inflight")) <= 1

\* the second file of a two-file transfer is in flight, the first one done
C11_Witness ==
    /\ Len(snd.sent) = 2
    /\ snd.sent[1].state = "ok"
    /\ snd.sent[2].state = "inflight"
    /\ snd.sent[1].fid # snd.sent[2].fid

\* the POST /chunk requests made for the file of the latest one
AttemptsOfLast ==
    {i \in 1..Len(snd.sent) : snd.sent[i].fid = snd.sent[Len(snd.sent)].fid}

\* C12: a send_files call that ended because a POST /chunk failed has made
\* three attempts for that file and has emitted TransferFailed.
C12_ThreeAttemptsThenFailed ==
    (snd.pc = "done" /\ PostsIn("failed") # {})
       => /\ Cardinality(AttemptsOfLast) = 3
          /\ \E i \in 1..Len(snd.events) : snd.events[i].type = "TransferFailed"

\* C13: every transfer that reached a terminal outcome (rejected, an upload
\* failed, all declared files received) has had exactly one TransferComplete
\* or TransferFailed event sent for its transfer_id.
C13_OneTerminalEvent == \A t \in hist.ended : hist.terminal[t] = 1

\* C14: when the 200 for the last declared file of a transfer has been
\* given, the transfer has no entry in approved and no pending record any
\* more (so its token is refused with 401 from then on).
C14_TokenRemovedOnCompletion ==
    (/\ resp.op = "chunk"
     /\ resp.status = 200
     /\ resp.tid \in DOMAIN hist.declared
     /\ AllServed(resp.tid))
       => /\ resp.tid \notin ApprovedIds
          /\ resp.tid \notin PendingIds

\* the chunk_upload_handler call u returns in this step
Returns(u) == uploads[u].busy /\ ~uploads'[u].busy

\* C15: a POST /chunk is answered 200 only when bytes_received equals the
\* size declared for the file (a body that ends with fewer or more bytes is
\* not reported as ok).
C15_SizeVerifiedAtEnd ==
    [][\A u \in DOMAIN uploads :
          (Returns(u) /\ resp'.status = 200)
             => uploads[u].bytes_received = uploads[u].size]_vars

\* C16: when a POST /chunk fails while streaming (body stream error or write
\* error), the partial file is gone, the transfer is in rejected and a
\* TransferFailed event for it is sent.
C16_FailureCleansUp ==
    [][\A u \in DOMAIN uploads :
          (Returns(u) /\ resp'.status = 500)
             => /\ ~disk'[file_path(uploads[u].name)].exists
                /\ uploads[u].tid \in rejected'
                /\ \E i \in 1..Len(bus') :
                      /\ bus'[i].type = "TransferFailed"
                      /\ bus'[i].transfer_id = uploads[u].tid]_vars

\* path p lies inside the download directory
Inside(p) ==
    /\ Len(p) > Len(download_dir)
    /\ SubSeq(p, 1, Len(download_dir)) = download_dir

\* C17: whatever name the sender declared, every file a POST /chunk creates
\* or writes lies inside the download directory: no upload streams to a path
\* outside it and no file exists outside it.
C17_InsideDownloadDir ==
    /\ \A p \in Paths : disk[p].exists => Inside(p)
    /\ \A u \in BusyUploads : Inside(file_path(uploads[u].name))

\* C18: an upload never takes a target path that holds the file of another
\* upload: a chunk_upload_handler call that starts writing finds no file of
\* another (transfer_id, file_id) at its path, and no other call is writing
\* there.
C18_NoOverwrite ==
    [][\A u \in DOMAIN uploads :
          (~uploads[u].busy /\ uploads'[u].busy) =>
             LET p == file_path(uploads'[u].name) IN
             /\ ~(/\ disk[p].exists
                  /\ << disk[p].owner, disk[p].fid >>
                        # << uploads'[u].tid, uploads'[u].fid >>)
             /\ \A v \in BusyUploads : file_path(uploads[v].name) # p]_vars

\* C19: a POST /transfer whose totalSize differs from the sum of its files'
\* sizes is rejected: no pending record and no TransferRequest event carries
\* such a request.
C19_TotalSizeValidated ==
    /\ \A t \in PendingIds :
          pending_transfers[t].total_size = SumSizes(pending_transfers[t].files)
    /\ \A i \in 1..Len(bus) :
          bus[i].type = "TransferRequest"
             => bus[i].transfer.total_size = SumSizes(bus[i].transfer.files)

\* C20: with receive_only off, a POST /transfer from an address in
\* trusted_hosts is answered accepted=true with a token that is stored under
\* approved[transfer_id], and creates no pending record.
C20_TrustedAutoAccept ==
    [][(resp'.op = "transfer" /\ ~receive_only /\ resp'.ip \in trusted_hosts)
          => /\ resp'.accepted
             /\ resp'.rtoken # NoToken
             /\ resp'.tid \in DOMAIN approved_tokens'
             /\ approved_tokens'[resp'.tid] = resp'.rtoken
             /\ pending_transfers' = pending_transfers]_vars

\* C21: for a sender that is not trusted, POST /transfer stores one pending
\* record under the request's transfer_id, made of the request's files and
\* total size, and leaves the other records alone; it sends one
\* TransferRequest event carrying that record, answers accepted=false without
\* a token, and leaves approved unchanged.
C21_UntrustedRequestPends ==
    [][(resp'.op = "transfer" /\ resp'.ip \notin trusted_hosts)
          => /\ DOMAIN pending_transfers' = PendingIds \cup {resp'.tid}
             /\ pending_transfers'[resp'.tid] =
                   [id |-> resp'.tid, files |-> resp'.request.files,
                    total_size |-> resp'.request.total_size]
             /\ \A t \in PendingIds \ {resp'.tid} :
                   pending_transfers'[t] = pending_transfers[t]
             /\ bus' = << [type |-> "TransferRequest",
                           transfer |-> pending_transfers'[resp'.tid]] >>
             /\ ~resp'.accepted
             /\ resp'.rtoken = NoToken
             /\ approved_tokens' = approved_tokens]_vars

\* an untrusted sender's request whose total is not the sum of its files has
\* been stored while another transfer was pending
C21_Witness ==
    /\ resp.op = "transfer"
    /\ resp.ip \notin trusted_hosts
    /\ resp.request.total_size # SumSizes(resp.request.files)
    /\ resp.tid \in PendingIds
    /\ \E t \in PendingIds : t # resp.tid

\* C22: every TransferResponse of the receive server has accepted = true
\* exactly when it carries a token, and the send client uploads only after a
\* response that has accepted = true and a token.
C22_AcceptedIffToken ==
    /\ resp.op = "transfer" => (resp.accepted <=> resp.rtoken # NoToken)
    /\ (snd.pc \in {"send", "await"} \/ snd.sent # << >>)
          => (snd.response.accepted /\ snd.response.token # NoToken)

\* a POST /chunk is in flight after a response with accepted = true and a
\* token
C22_Witness ==
    /\ snd.pc = "await"
    /\ snd.response.accepted
    /\ snd.response.token # NoToken
    /\ snd.token = snd.response.token

\* C23: once cancel has been issued for the transfer being sent, the send
\* loop posts no further file of that transfer.
C23_CancelStopsUploads ==
    [][snd.cancel # "none" => Len(snd'.sent) <= Len(snd.sent)]_vars

bus_send ==
    /\ app.chan.sent < MaxEvents
    /\ app' = [app EXCEPT !.chan.sent = @ + 1]
    /\ UNCHANGED engineVars

\* a receiver is behind the oldest event the channel still keeps
Lagged(sent, next) == next + ChannelCapacity <= sent

\* broadcast::Receiver::recv with an event to return: Err(Lagged) moves the
\* receiver to the oldest event kept, Ok(event) to the next event
Recv(sent, next) ==
    IF Lagged(sent, next)
    THEN [ok |-> FALSE, event |-> 0, next |-> sent - ChannelCapacity + 1]
    ELSE [ok |-> TRUE, event |-> next, next |-> next + 1]

\* the forwarder task: while let Ok(event) = rx.recv().await { emit }; an Err
\* ends the loop and the task
forwarder_recv ==
    /\ app.chan.fwd.running
    /\ app.chan.fwd.next <= app.chan.sent
    /\ LET r == Recv(app.chan.sent, app.chan.fwd.next)
       IN  app' = [app EXCEPT
                     !.chan.fwd = IF r.ok
                                  THEN [@ EXCEPT !.next = r.next,
                                                 !.got = Append(@, r.event)]
                                  ELSE [@ EXCEPT !.next = r.next,
                                                 !.running = FALSE]]
    /\ UNCHANGED engineVars

\* the stream of events_handler: an Err of the BroadcastStream becomes a
\* "heartbeat" item (0 here) and the stream goes on
events_handler_recv ==
    /\ app.chan.sse.running
    /\ app.chan.sse.next <= app.chan.sent
    /\ LET r == Recv(app.chan.sent, app.chan.sse.next)
       IN  app' = [app EXCEPT
                     !.chan.sse = [@ EXCEPT !.next = r.next,
                                            !.got = Append(@, r.event)]]
    /\ UNCHANGED engineVars

NextBus ==
    \/ bus_send
    \/ forwarder_recv
    \/ events_handler_recv

BusSpec == Init /\ [][NextBus]_vars

\* C28: a subscriber that has fallen behind keeps receiving: the forwarder
\* task and the GET /events stream are both still reading the bus after a
\* lag gap, so that every event sent afterwards reaches them.
C28_LaggedSubscriberKeepsReceiving ==
    app.chan.fwd.running /\ app.chan.sse.running

\* C29: the events of one transfer_id are sent, and so reach a subscriber, in
\* causal order: TransferRequest first, then Progress events, then the
\* terminal event.  A TransferRequest is never sent for a transfer that has
\* had a Progress or terminal event, a Progress event is sent only after the
\* TransferRequest and never after the terminal event.
C29_CausalOrder ==
    [][\A t \in TransferIds :
          /\ RequestEvents(bus', t) # {}
                => hist.phase[t] \in {"none", "requested"}
          /\ ProgressEvents(bus', t) # {}
                => hist.phase[t] \in {"requested", "progress"}
          /\ TerminalEvents(bus', t) # {}
                => hist.phase[t] \in {"requested", "progress"}]_vars

\* C30: every Progress event has bytes_transferred at most total_bytes, also
\* when the body is longer than the size declared for the file.
C30_ProgressWithinTotal ==
    \A i \in 1..Len(bus) :
        bus[i].type = "Progress"
            => bus[i].progress.bytes_transferred <= bus[i].progress.total_bytes

\* C25: start_server called while the server already has its listener does
\* not fail (and stop_server on a stopped server changes nothing).
C25_StartStopIdempotent == app.started # "error"

\* PortChanged events among events
PortChanges(events) ==
    {i \in 1..Len(events) : events[i].type = "PortChanged"}

C27_OneSnapshot == app.settings = app.engine


\* uploads for which the step has passed the checks of chunk_upload_handler
\* and created the file
Begun == {u \in DOMAIN uploads : ~uploads[u].busy /\ uploads'[u].busy}

\* C34: the files POST /chunk accepts for an approved transfer are the files
\* of the request as it stood when the transfer was approved: every upload
\* that is let through is of a file of that list, with its name and size.
C34_FilesFixedAtApproval ==
    [][\A u \in Begun :
          /\ uploads'[u].tid \in DOMAIN hist.declared
          /\ \E i \in 1..Len(hist.declared[uploads'[u].tid]) :
                LET f == hist.declared[uploads'[u].tid][i] IN
                /\ f.id = uploads'[u].fid
                /\ f.name = uploads'[u].name
                /\ f.size = uploads'[u].size]_vars

\* C35: a file of an approved transfer is written at most once: once a
\* POST /chunk for (transfer_id, file_id) has been answered 200, no later
\* POST /chunk for the same pair creates (and so truncates) the file again.
C35_WrittenAtMostOnce ==
    [][\A u \in Begun :
          << uploads'[u].tid, uploads'[u].fid >> \notin hist.served]_vars


\* ------------------------------------------------------------ HistoryStore
\* ids of transfer records, and the status an update gives a record
RecordIds == {"t1", "t2"}

TransferRecord(id) == [id |-> id, status |-> "InProgress"]

\* the newest record removed instead of the oldest
RECURSIVE Truncate_DropNewest(_)
Truncate_DropNewest(records) ==
    IF Len(records) > MAX_HISTORY_ENTRIES
    THEN Truncate_DropNewest(SubSeq(records, 1, Len(records) - 1))
    ELSE records

\* while records.len() > MAX_HISTORY_ENTRIES { records.remove(0); }
RECURSIVE Truncate(_)
Truncate(records) ==
    IF Len(records) > MAX_HISTORY_ENTRIES
    THEN Truncate(Tail(records))
    ELSE records

\* HistoryStore::add: push, enforce the limit, persist
history_add(record) ==
    /\ Len(app.history.added) < MaxAdds
    /\ app' = [app EXCEPT
                 !.history.records = Truncate(Append(@, record)),
                 !.history.added = Append(@, record)]
    /\ UNCHANGED engineVars

\* HistoryStore::clear
history_clear ==
    /\ app' = [app EXCEPT !.history.records = << >>,
                          !.history.cleared = Len(app.history.added)]
    /\ UNCHANGED engineVars

\* records.iter_mut().find(|r| r.id == id): position of the first record
\* with the id, 0 when there is none
FindRecord(records, id) ==
    LET hits == {i \in 1..Len(records) : records[i].id = id} IN
    IF hits = {} THEN 0
    ELSE CHOOSE i \in hits : \A j \in hits : i <= j

\* HistoryStore::update with an update_fn that sets the status
history_update(id, status) ==
    /\ LET i == FindRecord(app.history.records, id) IN
       app' = IF i = 0 THEN app
              ELSE [app EXCEPT !.history.records[i].status = status]
    /\ UNCHANGED engineVars

NextHistory ==
    \/ \E id \in RecordIds : history_add(TransferRecord(id))
    \/ history_clear
    \/ \E id \in RecordIds, status \in {"Completed", "Failed"} :
          history_update(id, status)

HistorySpec == Init /\ [][NextHistory]_vars

\* the ids of a list of records, in order
Ids(records) == [i \in 1..Len(records) |-> records[i].id]

\* the last n elements of a sequence (all of it when it is shorter)
Last(seq, n) ==
    IF Len(seq) <= n THEN seq ELSE SubSeq(seq, Len(seq) - n + 1, Len(seq))

\* the records added since the last clear
AddedSinceClear ==
    SubSeq(app.history.added, app.history.cleared + 1, Len(app.history.added))

\* C33: the history holds at most MAX_HISTORY_ENTRIES records, and they are
\* the most recently added records (since the last clear) in insertion
\* order: when an add exceeds the limit the oldest records are removed.
C33_HistoryBounded ==
    /\ Len(app.history.records) <= MAX_HISTORY_ENTRIES
    /\ Ids(app.history.records)
          = Last(Ids(AddedSinceClear), MAX_HISTORY_ENTRIES)

\* an add has exceeded the limit and the oldest record, a "t1", has gone
C33_Witness ==
    /\ Len(AddedSinceClear) > MAX_HISTORY_ENTRIES
    /\ AddedSinceClear[1].id = "t1"
    /\ Len(app.history.records) = MAX_HISTORY_ENTRIES
    /\ \A i \in 1..Len(app.history.records) : app.history.records[i].id = "t2"


\* C39: when an update_settings command has completed, the settings of the
\* SettingsStore, AppState.settings and the configuration of the engine are
\* all the settings of that update; an update_settings that fails to
\* persist leaves the copies as they were.
C39_CopiesAgree ==
    [][/\ (app.upd.pc = "idle" /\ app'.upd.pc = "idle")
            => app'.store = app.store
       /\ (app.upd.pc = "emit" /\ app'.upd.pc = "idle")
            => /\ app'.store = app.upd.new
               /\ app'.settings = app.upd.new
               /\ app'.engine = app.upd.new]_vars

\* C40: when add_trusted_host(h) or remove_trusted_host(h) has completed,
\* the trusted_hosts of AppState.settings are the trusted_hosts the
\* SettingsStore holds.
C40_TrustedHostsStored ==
    [][(app.trust.pc = "engine" /\ app'.trust.pc = "idle")
          => app'.settings.trusted_hosts = app'.store.trusted_hosts]_vars


\* ------------------------------------- the handlers of server.rs, lock by lock
\* What a handler does, in order: the locks it awaits and the operations in
\* between.  A guard bound to a variable (hold) lives until the handler
\* returns; a temporary guard is dropped at the end of its statement.
Acquire(lock, mode, hold, effect) ==
    [op |-> "acquire", lock |-> lock, mode |-> mode, hold |-> hold,
     effect |-> effect]

Operation(op) ==
    [op |-> op, lock |-> "", mode |-> "", hold |-> FALSE, effect |-> "none"]

\* the event sent before the record is inserted
TransferPlan_SendFirst ==
    << Acquire("settings", "read", TRUE, "none"),
       Operation("send"),
       Acquire("pending_transfers", "write", FALSE, "insert") >>

\* transfer_request_handler: let settings = state.settings.read().await;
\* state.pending_transfers.write().await.insert(..); state.event_tx.send(..)
TransferPlan ==
    << Acquire("settings", "read", TRUE, "none"),
       Acquire("pending_transfers", "write", FALSE, "insert"),
       Operation("send") >>

\* the handler removing the record of the transfer once the file is
\* received, its own read guard on pending_transfers still alive
ChunkPlan_RemoveAtEnd ==
    << Acquire("approved_tokens", "read", TRUE, "none"),
       Operation("check_token"),
       Acquire("download_dir", "read", FALSE, "none"),
       Acquire("pending_transfers", "read", TRUE, "none"),
       Operation("find"),
       Operation("stream"),
       Acquire("pending_transfers", "write", FALSE, "remove") >>

\* chunk_upload_handler: let approved = state.approved_tokens.read().await;
\* the token check; state.download_dir.read().await.clone();
\* let pending = state.pending_transfers.read().await; the lookups and
\* File::create; the body streamed to the file
ChunkPlan ==
    << Acquire("approved_tokens", "read", TRUE, "none"),
       Operation("check_token"),
       Acquire("download_dir", "read", FALSE, "none"),
       Acquire("pending_transfers", "read", TRUE, "none"),
       Operation("find"),
       Operation("stream") >>

Plan(kind) == IF kind = "transfer" THEN TransferPlan ELSE ChunkPlan

Running(x) == srv.h[x].kind # "idle"

\* what handler x is at (defined while it has not come to its end)
Step(x) == Plan(srv.h[x].kind)[srv.h[x].at]

AtEnd(x) == Running(x) /\ srv.h[x].at > Len(Plan(srv.h[x].kind))

AtOp(x, op) == Running(x) /\ ~AtEnd(x) /\ Step(x).op = op

\* the guards alive on a lock
Guards(lock) ==
    {g \in Handlers \X {"read", "write"} :
        << lock, g[2] >> \in srv.h[g[1]].held}

\* tokio RwLock: a read guard is given while no write guard is alive, a
\* write guard while no guard is alive, and waiters are served first come
\* first served, so a reader queues behind a waiting writer
Grantable(x) ==
    /\ srv.h[x].waiting
    /\ LET lock == Step(x).lock IN
       /\ srv.queue[lock] # << >>
       /\ Head(srv.queue[lock]) = x
       /\ IF Step(x).mode = "read"
          THEN \A g \in Guards(lock) : g[2] # "write"
          ELSE Guards(lock) = {}

\* a request arrives and its handler starts
handler_start(x, kind, tid) ==
    /\ ~Running(x)
    /\ srv' = [srv EXCEPT !.h[x] = [kind |-> kind, tid |-> tid, at |-> 1,
                                     waiting |-> FALSE, held |-> {}],
                          !.events = << >>]
    /\ UNCHANGED << engineVarsNoSrv, app >>

\* lock.read().await / lock.write().await: the handler joins the waiters
handler_await(x) ==
    /\ AtOp(x, "acquire")
    /\ ~srv.h[x].waiting
    /\ srv' = [srv EXCEPT !.h[x].waiting = TRUE,
                          !.queue[Step(x).lock] = Append(@, x),
                          !.events = << >>]
    /\ UNCHANGED << engineVarsNoSrv, app >>

\* the guard is given; a temporary guard is used and dropped on the spot
handler_acquire(x) ==
    /\ AtOp(x, "acquire")
    /\ Grantable(x)
    /\ LET st == Step(x) IN
       srv' = [srv EXCEPT
                 !.h[x].waiting = FALSE,
                 !.h[x].at = @ + 1,
                 !.h[x].held = IF st.hold THEN @ \cup {<< st.lock, st.mode >>}
                               ELSE @,
                 !.queue[st.lock] = Tail(@),
                 !.pending = CASE st.effect = "insert" -> @ \cup {srv.h[x].tid}
                               [] st.effect = "remove" -> @ \ {srv.h[x].tid}
                               [] OTHER -> @,
                 !.events = << >>]
    /\ UNCHANGED << engineVarsNoSrv, app >>

\* the handler returns: its guards are dropped
Returned(x) == [srv EXCEPT !.h[x] = NoHandler, !.events = << >>]

\* an operation between two locks; ok: the token is the approved one, the
\* file is found and created
handler_operation(x, ok) ==
    /\ Running(x) /\ ~AtEnd(x)
    /\ Step(x).op \in {"send", "check_token", "find", "stream"}
    /\ srv' =
         CASE Step(x).op = "send" ->
                [srv EXCEPT !.h[x].at = @ + 1,
                            !.events = << [type |-> "TransferRequest",
                                           transfer_id |-> srv.h[x].tid] >>]
           [] Step(x).op = "check_token" ->
                IF ok THEN [srv EXCEPT !.h[x].at = @ + 1, !.events = << >>]
                ELSE Returned(x)
           [] Step(x).op = "find" ->
                IF ok /\ srv.h[x].tid \in srv.pending
                THEN [srv EXCEPT !.h[x].at = @ + 1, !.events = << >>]
                ELSE Returned(x)
           [] Step(x).op = "stream" ->
                \* the body stream ends
                [srv EXCEPT !.h[x].at = @ + 1, !.events = << >>]
    /\ UNCHANGED << engineVarsNoSrv, app >>

handler_return(x) ==
    /\ AtEnd(x)
    /\ srv' = Returned(x)
    /\ UNCHANGED << engineVarsNoSrv, app >>

NextLocks ==
    \/ \E x \in Handlers, kind \in {"transfer", "chunk"}, tid \in PeerIds :
          handler_start(x, kind, tid)
    \/ \E x \in Handlers : handler_await(x)
    \/ \E x \in Handlers : handler_acquire(x)
    \/ \E x \in Handlers, ok \in BOOLEAN : handler_operation(x, ok)
    \/ \E x \in Handlers : handler_return(x)

LockSpec == Init /\ [][NextLocks]_vars


\* handlers streaming a body to disk
Streaming == {x \in Handlers : AtOp(x, "stream")}

\* C31: for one transfer_id at most one chunk upload is processed at a
\* time: no two chunk_upload_handlers for the same transfer are streaming to
\* disk at the same moment.
C31_OneUploadPerTransfer ==
    \A x, y \in Streaming : srv.h[x].tid = srv.h[y].tid => x = y

\* handlers waiting for a lock that handler x holds a guard on
WaitingOn(x) ==
    {y \in Handlers \ {x} :
        /\ srv.h[y].waiting
        /\ \E m \in {"read", "write"} : << Step(y).lock, m >> \in srv.h[x].held
        /\ ~Grantable(y)}

\* C32: no lock is held across I/O: while a chunk_upload_handler streams its
\* body to disk, no handler of another transfer waits for a lock the
\* streaming handler holds.
C32_NoLockAcrossIo ==
    \A x \in Streaming :
        \A y \in WaitingOn(x) : srv.h[y].tid = srv.h[x].tid

C38_EventAfterInsert ==
    [][\A i \in 1..Len(srv'.events) :
          /\ srv'.events[i].transfer_id \in srv.pending
          /\ srv'.events[i].transfer_id \in srv'.pending
          /\ Guards("pending_transfers") \cap (Handlers \X {"write"}) = {}]_vars

\* the event has been sent, for a record inserted before
C38_Witness ==
    /\ srv.events # << >>
    /\ srv.events[1].transfer_id \in srv.pending


\* C36: the engine mutex is not held for the whole of a send: a command
\* invoked while send_files is in progress does not have to wait until the
\* send has ended.
C36_EngineNotHeldDuringSend == snd.command.state # "waiting"

====
